---- MODULE Spec2Model ----
(***************************************************************************)
(* The detection orchestrator of Sign-To-Text (the App component), with    *)
(* the two collaborators whose code decides when it runs: CameraHandler    *)
(* (the word-scan interval and captureFrame) and ControlPanel (which       *)
(* buttons exist and which are disabled).                                  *)
(*                                                                         *)
(* React is modelled as follows.  A handler run by a click is rendered,    *)
(* committed and its effects run in the same step (React flushes discrete  *)
(* events synchronously), and a click is taken only on a settled UI.  A    *)
(* setState made by a timer callback or after an await is rendered by a    *)
(* later step, Render: until then the intervals armed by the last render   *)
(* and the closures they hold stay as they are.                            *)
(***************************************************************************)
EXTENDS Integers, Sequences, FiniteSets, TLC

\* ---------------------------------------------------------------- bounds
\* entries the history holds
MaxHistory == 2
\* frames captured in one recording, in Spec
MaxFrames == 2
\* frames held by the buffer of the recordings SpecLong starts from
MaxBufLen == 40
\* logout() calls awaiting their answer, in SpecAuth
MaxLogouts == 1
\* entries the history holds, in SpecLive
MaxLiveHistory == 1
\* login and register calls awaiting the end of their delay, in SpecRegister
MaxAuthCalls == 2

\* ------------------------------------------------------------- constants
\* part_000:73, the most frames detectSignSentence sends
MaxPayload == 15

AppStates == {"IDLE", "SCANNING", "RECORDING", "PROCESSING", "ERROR"}
DetectionModes == {"WORD", "SENTENCE"}
SignLanguages == {"ASL", "ISL"}

\* The translations the inference service is let answer with.
Translations == {"", " ", "HELLO", "hello", "WORLD"}

\* What the service answers: no usable answer (network error, empty or
\* unparsable text), or a SignDetectionResult.
Responses ==
    {[ok |-> FALSE, isSign |-> FALSE, translation |-> ""]}
    \cup {[ok |-> TRUE, isSign |-> FALSE, translation |-> t] : t \in {"", "HELLO"}}
    \cup {[ok |-> TRUE, isSign |-> TRUE, translation |-> t] : t \in Translations}

\* The emails and passwords the auth service is called with: two emails
\* that differ in case only, and a third one.
Emails == {"ann@x.io", "Ann@x.io", "bob@x.io"}
Passwords == {"pw", "pw2"}

\* The account of the user the application starts with.
StoredAccount == [email |-> "ann@x.io", password |-> "pw"]

VARIABLES
    appState,           \* useState<AppState>
    detectionMode,      \* useState<DetectionMode>
    signLanguage,       \* useState<SignLanguage>
    isCameraActive,     \* useState(false)
    currentPrediction,  \* useState<SignDetectionResult | null>: <<>> is null
    history,            \* useState<HistoryItem[]>
    frameCount,         \* useState(0)
    framesBufferRef,    \* useRef<string[]>
    processingRef,      \* useRef(false)
    rAppState,          \* appState as of the last committed render
    videoReady,         \* video.readyState === HAVE_ENOUGH_DATA
    wordTimer,          \* CameraHandler's interval: <<>> or <<its closure>>
    sentTimer,          \* App's 250 ms interval is armed
    wordCalls,          \* detectSignLanguage calls awaiting their answer
    sentCalls,          \* detectSignSentence calls awaiting their answer
    spoken,             \* the texts the last step asked speak to say
    captured,           \* the frames pushed during the current recording
    lastOp,             \* the handler the last step ran, or "none"
    lastOutcome,        \* what a tick did with its frame
    lastResponse,       \* <<>> or <<the answer the last step delivered>>
    user,               \* useState<User | null>: <<>> is null
    logoutCalls,        \* logout() calls awaiting their answer
    users,              \* localStorage 'signlens_users': StoredUser[] by email
                        \* and password; id and name decide nothing
    session,            \* localStorage 'signlens_session': <<>> or <<email>>
    authCalls,          \* login and register calls inside their delay(800)
    lastAuth,           \* how the last login or register call ended
    error,              \* CameraHandler's useState<string | null>: <<>> is null
    cameraRequest       \* startCamera is awaiting getUserMedia

appVars == <<appState, detectionMode, signLanguage, isCameraActive,
             currentPrediction, history, frameCount, framesBufferRef,
             processingRef>>
reactVars == <<rAppState, videoReady, wordTimer, sentTimer, error,
               cameraRequest>>
callVars == <<wordCalls, sentCalls>>
logVars == <<spoken, captured, lastOp, lastOutcome, lastResponse>>
storeVars == <<users, session, authCalls, lastAuth>>
authVars == <<user, logoutCalls, storeVars>>
vars == <<appVars, reactVars, callVars, logVars, authVars>>

\* ---------------------------------------------------------- pure helpers
Last(s) == s[Len(s)]

\* String.prototype.toLowerCase on the translations and the emails of the
\* model.
toLowerCase(s) ==
    CASE s = "HELLO" -> "hello"
      [] s = "WORLD" -> "world"
      [] s = "Ann@x.io" -> "ann@x.io"
      [] OTHER -> s

\* A string in a condition: the empty string is false, any other is true.
truthy(s) == s # ""

\* Math.ceil(n / d) for n >= 0, d > 0.
ceilDiv(n, d) == (n + d - 1) \div d

\* Mutant: the stride rounded down.
stride_Floor(n) == n \div MaxPayload

stride(n) == ceilDiv(n, MaxPayload)

RECURSIVE filterByIndex(_, _, _)
\* base64Images.filter((_, i) => i % k === 0), i counted from 0; j is the
\* 1-based position reached.
filterByIndex(base64Images, k, j) ==
    IF j > Len(base64Images) THEN <<>>
    ELSE IF (j - 1) % k = 0
         THEN <<base64Images[j]>> \o filterByIndex(base64Images, k, j + 1)
         ELSE filterByIndex(base64Images, k, j + 1)

framesToProcess(base64Images) ==
    IF Len(base64Images) > MaxPayload
    THEN filterByIndex(base64Images, stride(Len(base64Images)), 1)
    ELSE base64Images

\* The value detectSignLanguage resolves to.
detectSignLanguage(resp) ==
    IF resp.ok
    THEN [isSign |-> resp.isSign, translation |-> resp.translation,
          description |-> ""]
    ELSE [isSign |-> FALSE, translation |-> "", description |-> "Detection Error"]

\* The value detectSignSentence resolves to.
detectSignSentence(resp) ==
    IF resp.ok
    THEN [isSign |-> resp.isSign, translation |-> resp.translation,
          description |-> ""]
    ELSE [isSign |-> FALSE, translation |-> "",
          description |-> "Error processing sentence"]

\* ------------------------------------------------------------------ Init
Init ==
    /\ appState = "IDLE"
    /\ detectionMode = "WORD"
    /\ signLanguage = "ASL"
    /\ isCameraActive = FALSE
    /\ currentPrediction = <<>>
    /\ history = <<>>
    /\ frameCount = 0
    /\ framesBufferRef = <<>>
    /\ processingRef = FALSE
    /\ rAppState = "IDLE"
    /\ videoReady = FALSE
    /\ wordTimer = <<>>
    /\ sentTimer = FALSE
    /\ wordCalls = <<>>
    /\ sentCalls = <<>>
    /\ spoken = <<>>
    /\ captured = <<>>
    /\ lastOp = "Init"
    /\ lastOutcome = "none"
    /\ lastResponse = <<>>
    /\ user = <<"user">>
    /\ logoutCalls = 0
    /\ users = <<StoredAccount>>
    /\ session = <<StoredAccount.email>>
    /\ authCalls = <<>>
    /\ lastAuth = [op |-> "none", email |-> "", result |-> ""]
    /\ error = <<>>
    /\ cameraRequest = FALSE

\* speak(text): the request to the Audio Notifier.  Whether it is voiced
\* (isMuted, rate, pitch) is the notifier's configuration.
speak(text) == spoken' = <<text>>

\* A step that asks nothing of the Audio Notifier.
silent == spoken' = <<>>

\* ------------------------------------------------- rendering and effects
\* The committed render shows the state: clicks are taken only then.
Settled == rAppState = appState

\* Mutant: the scan goes on while a call is outstanding.
isAutoMode_WhileProcessing(cam, mode, st) == cam /\ mode = "WORD"

\* Mutant: the scan runs in both modes.
isAutoMode_AnyMode(cam, mode, st) == cam /\ st # "PROCESSING"

\* The isAutoMode prop App gives CameraHandler.
isAutoMode(cam, mode, st) == cam /\ mode = "WORD" /\ st # "PROCESSING"

\* What the interval armed by a render calls: captureFrame of that render,
\* whose onFrameCapture is that render's handleFrameCapture.
closure(mode, st, lang) ==
    [detectionMode |-> mode, appState |-> st, signLanguage |-> lang]

\* CameraHandler's interval effect, deps [isAutoMode, isActive,
\* scanIntervalMs]: it runs again only when isAutoMode changes, and then
\* clears the interval and arms a new one if isAutoMode holds.  An armed
\* interval means the last render had isAutoMode.
scanEffect(timer, auto, c) ==
    IF (timer # <<>>) = auto THEN timer
    ELSE IF auto THEN <<c>> ELSE <<>>

\* Mutant: the state is not tested.
recordEffect_AnyState(st, mode) == mode = "SENTENCE"

\* App's interval effect, deps [appState, detectionMode].
recordEffect(st, mode) == st = "RECORDING" /\ mode = "SENTENCE"

\* CameraHandler's isActive effect: a stopped camera has no stream.
streamEffect(cam, ready) == cam /\ ready

\* CameraHandler's isActive effect: startCamera is called when isActive
\* becomes true, or CameraHandler mounts with it true; what it awaits is
\* of no use once the camera is stopped.
requestEffect(wasActive, active, request) ==
    IF active /\ ~wasActive THEN TRUE
    ELSE IF ~active THEN FALSE
    ELSE request

\* App renders CameraHandler and ControlPanel for a user, and AuthScreen
\* alone, after its hooks, for none.
mounted(u) == u # <<>>

\* A render of the new state, its commit and its effects.  CameraHandler
\* unmounted has its stream stopped and its interval cleared by the
\* cleanups of its effects; App's own effect runs whoever the user is.
Commit ==
    /\ rAppState' = appState'
    /\ videoReady' = streamEffect(mounted(user') /\ isCameraActive', videoReady)
    /\ wordTimer' =
          IF mounted(user')
          THEN scanEffect(wordTimer,
                   isAutoMode(isCameraActive', detectionMode', appState'),
                   closure(detectionMode', appState', signLanguage'))
          ELSE <<>>
    /\ sentTimer' = recordEffect(appState', detectionMode')
    /\ error' = IF mounted(user') THEN error ELSE <<>>
    /\ cameraRequest' = requestEffect(mounted(user) /\ isCameraActive,
                                      mounted(user') /\ isCameraActive',
                                      cameraRequest)

Render ==
    /\ ~Settled
    /\ UNCHANGED <<appVars, callVars, captured, authVars>>
    /\ silent
    /\ Commit
    /\ lastOp' = "none"
    /\ lastOutcome' = "none"
    /\ lastResponse' = <<>>

\* getUserMedia resolved and the video element has a frame to draw.
StreamReady ==
    /\ mounted(user)
    /\ isCameraActive
    /\ ~videoReady
    /\ cameraRequest
    /\ cameraRequest' = FALSE
    /\ videoReady' = TRUE
    /\ error' = <<>>
    /\ UNCHANGED <<appVars, callVars, captured, rAppState, wordTimer,
                   sentTimer, authVars>>
    /\ silent
    /\ lastOp' = "none"
    /\ lastOutcome' = "none"
    /\ lastResponse' = <<>>

\* getUserMedia rejected: the catch of startCamera.
StreamDenied ==
    /\ mounted(user)
    /\ isCameraActive
    /\ cameraRequest
    /\ cameraRequest' = FALSE
    /\ error' = <<"Camera access denied. Please allow permission.">>
    /\ UNCHANGED <<appVars, callVars, captured, rAppState, videoReady,
                   wordTimer, sentTimer, authVars>>
    /\ silent
    /\ lastOp' = "StreamDenied"
    /\ lastOutcome' = "none"
    /\ lastResponse' = <<>>

\* ------------------------------------------------------------- handlers
\* Mutant: the frame put at the front.
push_Front(buffer, base64Image) == <<base64Image>> \o buffer

\* framesBufferRef.current.push(base64Image)
push(buffer, base64Image) == Append(buffer, base64Image)

\* Mutant: the texts compared as they are.
isDuplicate_CaseSensitive(prev, translation) ==
    /\ prev # <<>>
    /\ Last(prev).text = translation

\* The dedup test of the setHistory updater: there is a last item and its
\* text equals the translation, case ignored.
isDuplicate(prev, translation) ==
    /\ prev # <<>>
    /\ toLowerCase(Last(prev).text) = toLowerCase(translation)

\* Mutant: no in-flight guard.
handleWordDetection_NoGuard(language) ==
    /\ processingRef' = TRUE
    /\ appState' = "PROCESSING"
    /\ wordCalls' = Append(wordCalls, [language |-> language])

\* handleWordDetection up to its await: the in-flight guard, then the call
\* with the signLanguage the callback closed over.
handleWordDetection(language) ==
    IF processingRef
    THEN UNCHANGED <<processingRef, appState, wordCalls>>
    ELSE /\ processingRef' = TRUE
         /\ appState' = "PROCESSING"
         /\ wordCalls' = Append(wordCalls, [language |-> language])

\* Mutant: a WORD frame is buffered as well as dispatched.
handleFrameCapture_BufferAlways(base64Image, c) ==
    IF c.detectionMode = "WORD"
    THEN /\ handleWordDetection(c.signLanguage)
         /\ framesBufferRef' = push(framesBufferRef, base64Image)
         /\ frameCount' = frameCount + 1
    ELSE IF c.detectionMode = "SENTENCE" /\ c.appState = "RECORDING"
    THEN /\ framesBufferRef' = push(framesBufferRef, base64Image)
         /\ frameCount' = frameCount + 1
         /\ UNCHANGED <<processingRef, appState, wordCalls>>
    ELSE UNCHANGED <<framesBufferRef, frameCount, processingRef, appState,
                     wordCalls>>

\* handleFrameCapture as the render of closure c built it.
handleFrameCapture(base64Image, c) ==
    IF c.detectionMode = "WORD"
    THEN /\ handleWordDetection(c.signLanguage)
         /\ UNCHANGED <<framesBufferRef, frameCount>>
    ELSE IF c.detectionMode = "SENTENCE" /\ c.appState = "RECORDING"
    THEN /\ framesBufferRef' = push(framesBufferRef, base64Image)
         /\ frameCount' = frameCount + 1
         /\ UNCHANGED <<processingRef, appState, wordCalls>>
    ELSE UNCHANGED <<framesBufferRef, frameCount, processingRef, appState,
                     wordCalls>>

\* CameraHandler's captureFrame: a frame is drawn and handed on only when
\* the video has data.
captureFrame(base64Image, c) ==
    IF videoReady
    THEN handleFrameCapture(base64Image, c)
    ELSE UNCHANGED <<framesBufferRef, frameCount, processingRef, appState,
                     wordCalls>>

\* The frame the camera delivers next: numbered by its place in the
\* recording.
nextFrame == Len(captured) + 1

\* What a tick did with its frame.
tickOutcome(c) ==
    IF ~videoReady THEN "noframe"
    ELSE IF wordCalls' # wordCalls THEN "dispatched"
    ELSE IF framesBufferRef' # framesBufferRef THEN "appended"
    ELSE IF c.detectionMode = "WORD" THEN "dropped"
    ELSE "ignored"

\* A tick of CameraHandler's interval: it calls the captureFrame of the
\* render that armed it.  Its setState is rendered later.
WordScanTick ==
    /\ wordTimer # <<>>
    /\ captureFrame(nextFrame, wordTimer[1])
    /\ captured' = IF framesBufferRef' # framesBufferRef
                   THEN Append(captured, nextFrame) ELSE captured
    /\ UNCHANGED <<detectionMode, signLanguage, isCameraActive,
                   currentPrediction, history, sentCalls, reactVars, authVars>>
    /\ silent
    /\ lastOp' = "WordScanTick"
    /\ lastOutcome' = tickOutcome(wordTimer[1])
    /\ lastResponse' = <<>>

\* A tick of App's 250 ms interval: cameraRef.current.captureOnce() is the
\* captureFrame of the last committed render.
SentenceTick ==
    /\ sentTimer
    /\ Len(captured) < MaxFrames
    /\ LET c == closure(detectionMode, rAppState, signLanguage)
       IN  /\ captureFrame(nextFrame, c)
           /\ lastOutcome' = tickOutcome(c)
    /\ captured' = IF framesBufferRef' # framesBufferRef
                   THEN Append(captured, nextFrame) ELSE captured
    /\ UNCHANGED <<detectionMode, signLanguage, isCameraActive,
                   currentPrediction, history, sentCalls, reactVars, authVars>>
    /\ silent
    /\ lastOp' = "SentenceTick"
    /\ lastResponse' = <<>>

\* s without its i-th element.
removeAt(s, i) == SubSeq(s, 1, i - 1) \o SubSeq(s, i + 1, Len(s))

\* Mutant: the prediction is set only when the entry is appended.
wordResult_PredictionOnAppend(result) ==
    IF result.isSign /\ truthy(result.translation)
    THEN IF ~isDuplicate(history, result.translation)
         THEN /\ currentPrediction' = <<result>>
              /\ speak(result.translation)
              /\ history' = Append(history,
                     [text |-> result.translation, mode |-> "WORD"])
         ELSE UNCHANGED <<currentPrediction, history>> /\ silent
    ELSE /\ currentPrediction' =
                IF currentPrediction # <<>>
                THEN <<[currentPrediction[1] EXCEPT
                           !.description = "No clear sign detected"]>>
                ELSE <<>>
         /\ UNCHANGED history
         /\ silent

\* Mutant: a suppressed word is spoken all the same.
wordResult_SpeakAlways(result) ==
    IF result.isSign /\ truthy(result.translation)
    THEN /\ currentPrediction' = <<result>>
         /\ speak(result.translation)
         /\ IF ~isDuplicate(history, result.translation)
            THEN history' = Append(history,
                     [text |-> result.translation, mode |-> "WORD"])
            ELSE UNCHANGED history
    ELSE /\ currentPrediction' =
                IF currentPrediction # <<>>
                THEN <<[currentPrediction[1] EXCEPT
                           !.description = "No clear sign detected"]>>
                ELSE <<>>
         /\ UNCHANGED history
         /\ silent

\* handleWordDetection after its await, inside the try: the accept/dedup of
\* a positive result with a translation, or the "no clear sign" note.
wordResult(result) ==
    IF result.isSign /\ truthy(result.translation)
    THEN /\ currentPrediction' = <<result>>
         /\ IF ~isDuplicate(history, result.translation)
            THEN /\ speak(result.translation)
                 /\ history' = Append(history,
                        [text |-> result.translation, mode |-> "WORD"])
            ELSE UNCHANGED history /\ silent
    ELSE /\ currentPrediction' =
                IF currentPrediction # <<>>
                THEN <<[currentPrediction[1] EXCEPT
                           !.description = "No clear sign detected"]>>
                ELSE <<>>
         /\ UNCHANGED history
         /\ silent

\* Mutant: SCANNING is not set.
wordFinally_StayProcessing ==
    /\ processingRef' = FALSE
    /\ UNCHANGED appState

\* Mutant: the guard is not cleared.
wordFinally_KeepGuard ==
    /\ UNCHANGED processingRef
    /\ appState' = "SCANNING"

\* The finally of handleWordDetection.
wordFinally ==
    /\ processingRef' = FALSE
    /\ appState' = "SCANNING"

\* A detectSignLanguage call resolves and handleWordDetection runs to its
\* end.  Its setState is rendered later.
WordReturn ==
    \E i \in 1..Len(wordCalls), resp \in Responses :
        /\ wordCalls' = removeAt(wordCalls, i)
        /\ wordResult(detectSignLanguage(resp))
        /\ wordFinally
        /\ Len(history') <= MaxHistory
        /\ UNCHANGED <<detectionMode, signLanguage, isCameraActive, frameCount,
                       framesBufferRef, sentCalls, captured, reactVars,
                       authVars>>
        /\ lastOp' = "WordReturn"
        /\ lastOutcome' = "none"
        /\ lastResponse' = <<resp>>

\* Mutant: the test lets an empty buffer through.
hasFrames_Always(frames) == Len(frames) >= 0

\* frames.length > 0
hasFrames(frames) == Len(frames) > 0

\* Mutant: the frame counter is not reset.
finishRecording_KeepCount ==
    /\ framesBufferRef' = <<>>
    /\ UNCHANGED frameCount
    /\ appState' = "IDLE"

\* Mutant: the buffer is not cleared.
finishRecording_KeepBuffer ==
    /\ UNCHANGED framesBufferRef
    /\ frameCount' = 0
    /\ appState' = "IDLE"

\* The end of the stop branch of toggleRecording.
finishRecording ==
    /\ framesBufferRef' = <<>>
    /\ frameCount' = 0
    /\ appState' = "IDLE"

\* Mutant: IDLE is set before the call is awaited.
stopRecording_IdleEarly ==
    LET frames == framesBufferRef
    IN  IF hasFrames(frames)
        THEN /\ appState' = "IDLE"
             /\ sentCalls' = Append(sentCalls,
                    [frames |-> frames, payload |-> framesToProcess(frames),
                     language |-> signLanguage])
             /\ UNCHANGED <<framesBufferRef, frameCount>>
        ELSE /\ finishRecording
             /\ UNCHANGED sentCalls

\* The stop branch of toggleRecording up to its await, or to its end when
\* there is no frame.  detectSignSentence builds its request from the
\* frames before it first awaits.
stopRecording ==
    LET frames == framesBufferRef
    IN  IF hasFrames(frames)
        THEN /\ appState' = "PROCESSING"
             /\ sentCalls' = Append(sentCalls,
                    [frames |-> frames, payload |-> framesToProcess(frames),
                     language |-> signLanguage])
             /\ UNCHANGED <<framesBufferRef, frameCount>>
        ELSE /\ finishRecording
             /\ UNCHANGED sentCalls

\* The start branch of toggleRecording.
startRecording ==
    /\ framesBufferRef' = <<>>
    /\ frameCount' = 0
    /\ appState' = "RECORDING"
    /\ UNCHANGED sentCalls

\* Mutant: the record button is not disabled while PROCESSING.
toggleRecording_NotDisabled ==
    /\ Settled
    /\ mounted(user)
    /\ isCameraActive
    /\ detectionMode = "SENTENCE"
    /\ IF appState = "RECORDING" THEN stopRecording ELSE startRecording
    /\ captured' = <<>>
    /\ UNCHANGED <<detectionMode, signLanguage, isCameraActive,
                   currentPrediction, history, processingRef, wordCalls,
                   authVars>>
    /\ silent
    /\ Commit
    /\ lastOp' = "toggleRecording"
    /\ lastOutcome' = IF appState = "RECORDING" THEN "stop" ELSE "start"
    /\ lastResponse' = <<>>

\* A click on the record button, which ControlPanel renders when the camera
\* is active and the mode is SENTENCE, and disables while PROCESSING.
toggleRecording ==
    /\ Settled
    /\ mounted(user)
    /\ isCameraActive
    /\ detectionMode = "SENTENCE"
    /\ appState # "PROCESSING"
    /\ IF appState = "RECORDING" THEN stopRecording ELSE startRecording
    /\ captured' = <<>>
    /\ UNCHANGED <<detectionMode, signLanguage, isCameraActive,
                   currentPrediction, history, processingRef, wordCalls,
                   authVars>>
    /\ silent
    /\ Commit
    /\ lastOp' = "toggleRecording"
    /\ lastOutcome' = IF appState = "RECORDING" THEN "stop" ELSE "start"
    /\ lastResponse' = <<>>

\* Mutant: a result that is not positive leaves the prediction as it was.
sentenceResult_KeepPrediction(result) ==
    IF result.isSign
    THEN /\ currentPrediction' = <<result>>
         /\ speak(result.translation)
         /\ history' = Append(history,
                [text |-> result.translation, mode |-> "SENTENCE"])
    ELSE /\ UNCHANGED currentPrediction
         /\ UNCHANGED history
         /\ silent

\* Mutant: a positive result is deduplicated as a word is.
sentenceResult_Dedup(result) ==
    IF result.isSign
    THEN /\ currentPrediction' = <<result>>
         /\ IF ~isDuplicate(history, result.translation)
            THEN /\ speak(result.translation)
                 /\ history' = Append(history,
                        [text |-> result.translation, mode |-> "SENTENCE"])
            ELSE UNCHANGED history /\ silent
    ELSE /\ currentPrediction' =
                <<[isSign |-> FALSE,
                   translation |-> "Could not understand sentence",
                   description |-> ""]>>
         /\ UNCHANGED history
         /\ silent

\* Mutant: the history is replaced by the new entry.
sentenceResult_Overwrite(result) ==
    IF result.isSign
    THEN /\ currentPrediction' = <<result>>
         /\ speak(result.translation)
         /\ history' = <<[text |-> result.translation, mode |-> "SENTENCE"]>>
    ELSE /\ currentPrediction' =
                <<[isSign |-> FALSE,
                   translation |-> "Could not understand sentence",
                   description |-> ""]>>
         /\ UNCHANGED history
         /\ silent

\* toggleRecording after its await, inside the try.
sentenceResult(result) ==
    IF result.isSign
    THEN /\ currentPrediction' = <<result>>
         /\ speak(result.translation)
         /\ history' = Append(history,
                [text |-> result.translation, mode |-> "SENTENCE"])
    ELSE /\ currentPrediction' =
                <<[isSign |-> FALSE,
                   translation |-> "Could not understand sentence",
                   description |-> ""]>>
         /\ UNCHANGED history
         /\ silent

\* A detectSignSentence call resolves and toggleRecording runs to its end.
\* Its setState is rendered later.
SentenceReturn ==
    \E i \in 1..Len(sentCalls), resp \in Responses :
        /\ sentCalls' = removeAt(sentCalls, i)
        /\ sentenceResult(detectSignSentence(resp))
        /\ finishRecording
        /\ Len(history') <= MaxHistory
        /\ UNCHANGED <<detectionMode, signLanguage, isCameraActive,
                       processingRef, wordCalls, captured, reactVars,
                       authVars>>
        /\ lastOp' = "SentenceReturn"
        /\ lastOutcome' = "none"
        /\ lastResponse' = <<resp>>

\* Mutant: the mode is set whatever appState is.
modeSwitch_Unguarded(mode) == detectionMode' = mode

\* onClick of a mode button: appState !== RECORDING && setDetectionMode(mode)
modeSwitch(mode) ==
    IF appState # "RECORDING"
    THEN detectionMode' = mode
    ELSE UNCHANGED detectionMode

\* A mode-toggle request.  ControlPanel renders the switcher when the
\* camera is active.
SetDetectionMode ==
    \E mode \in DetectionModes :
        /\ Settled
        /\ mounted(user)
        /\ isCameraActive
        /\ modeSwitch(mode)
        /\ UNCHANGED <<appState, signLanguage, isCameraActive,
                       currentPrediction, history, frameCount,
                       framesBufferRef, processingRef, callVars, captured,
                       authVars>>
        /\ silent
        /\ Commit
        /\ lastOp' = "SetDetectionMode"
        /\ lastOutcome' = IF detectionMode' # detectionMode
                          THEN "switched" ELSE "none"
        /\ lastResponse' = <<>>

\* A click on a language button.
SetSignLanguage ==
    \E lang \in SignLanguages \ {signLanguage} :
        /\ Settled
        /\ mounted(user)
        /\ signLanguage' = lang
        /\ UNCHANGED <<appState, detectionMode, isCameraActive,
                       currentPrediction, history, frameCount,
                       framesBufferRef, processingRef, callVars, captured,
                       authVars>>
        /\ silent
        /\ Commit
        /\ lastOp' = "none"
        /\ lastOutcome' = "none"
        /\ lastResponse' = <<>>

\* toggleCamera: setIsCameraActive(!isCameraActive)
ToggleCamera ==
    /\ Settled
    /\ mounted(user)
    /\ isCameraActive' = ~isCameraActive
    /\ UNCHANGED <<appState, detectionMode, signLanguage, currentPrediction,
                   history, frameCount, framesBufferRef, processingRef,
                   callVars, captured, authVars>>
    /\ silent
    /\ Commit
    /\ lastOp' = "none"
    /\ lastOutcome' = "none"
    /\ lastResponse' = <<>>

\* clearHistory: setHistory([])
ClearHistory ==
    /\ Settled
    /\ mounted(user)
    /\ history # <<>>
    /\ history' = <<>>
    /\ UNCHANGED <<appState, detectionMode, signLanguage, isCameraActive,
                   currentPrediction, frameCount, framesBufferRef,
                   processingRef, callVars, captured, authVars>>
    /\ silent
    /\ Commit
    /\ lastOp' = "ClearHistory"
    /\ lastOutcome' = "none"
    /\ lastResponse' = <<>>

\* handleLogout up to its await: the camera is stopped and logout() called.
handleLogout ==
    /\ Settled
    /\ mounted(user)
    /\ logoutCalls < MaxLogouts
    /\ isCameraActive' = FALSE
    /\ logoutCalls' = logoutCalls + 1
    /\ UNCHANGED <<appState, detectionMode, signLanguage, currentPrediction,
                   history, frameCount, framesBufferRef, processingRef,
                   callVars, captured, user, storeVars>>
    /\ silent
    /\ Commit
    /\ lastOp' = "handleLogout"
    /\ lastOutcome' = "none"
    /\ lastResponse' = <<>>

\* logout() removes the stored session and resolves, and handleLogout runs
\* to its end: setUser(null), and the render that follows it at once.
LogoutReturn ==
    /\ logoutCalls > 0
    /\ logoutCalls' = logoutCalls - 1
    /\ session' = <<>>
    /\ user' = <<>>
    /\ UNCHANGED <<appVars, callVars, captured, users, authCalls, lastAuth>>
    /\ silent
    /\ Commit
    /\ lastOp' = "LogoutReturn"
    /\ lastOutcome' = "none"
    /\ lastResponse' = <<>>

\* AuthScreen's handleSubmit succeeds with the login of a stored account:
\* the session is stored and onLogin(user) is setUser(user).
Login ==
    /\ ~mounted(user)
    /\ \E i \in 1..Len(users) : session' = <<users[i].email>>
    /\ user' = <<"user">>
    /\ UNCHANGED <<appVars, callVars, captured, logoutCalls, users, authCalls,
                   lastAuth>>
    /\ silent
    /\ Commit
    /\ lastOp' = "Login"
    /\ lastOutcome' = "none"
    /\ lastResponse' = <<>>

\* ------------------------------------------------------ the auth service
\* Mutant: the emails compared as they were typed.
emailTaken_CaseSensitive(list, email) ==
    \E i \in 1..Len(list) : list[i].email = email

\* users.find(u => u.email.toLowerCase() === email.toLowerCase()), as a
\* condition.
emailTaken(list, email) ==
    \E i \in 1..Len(list) : toLowerCase(list[i].email) = toLowerCase(email)

\* login's users.find: <<>> or <<the first stored user of that email,
\* whatever its case, and that password>>.
findUser(list, email, password) ==
    LET found == {i \in 1..Len(list) :
                     /\ toLowerCase(list[i].email) = toLowerCase(email)
                     /\ list[i].password = password}
    IN  IF found = {} THEN <<>>
        ELSE <<list[CHOOSE i \in found : \A j \in found : i <= j]>>

\* storage.setItem: what the key may hold afterwards, the new value, or
\* the old one when localStorage throws and the wrapper swallows it.
setItem(old, new) == {new, old}

\* register up to its await.  The timers of delay(800) fire in the order
\* they were set.
register ==
    /\ Len(authCalls) < MaxAuthCalls
    /\ \E email \in Emails, password \in Passwords :
            authCalls' = Append(authCalls, [op |-> "register", email |-> email,
                                           password |-> password])
    /\ UNCHANGED <<appVars, reactVars, callVars, logVars, user, logoutCalls,
                   users, session, lastAuth>>

\* login up to its await.
login ==
    /\ Len(authCalls) < MaxAuthCalls
    /\ \E email \in Emails, password \in Passwords :
            authCalls' = Append(authCalls, [op |-> "login", email |-> email,
                                           password |-> password])
    /\ UNCHANGED <<appVars, reactVars, callVars, logVars, user, logoutCalls,
                   users, session, lastAuth>>

\* register after its await, in one run: the list is read, the email looked
\* up, and either the call throws or the user is pushed and both keys set.
RegisterResume ==
    /\ authCalls # <<>>
    /\ Head(authCalls).op = "register"
    /\ authCalls' = Tail(authCalls)
    /\ LET call == Head(authCalls)
           newUser == [email |-> call.email, password |-> call.password]
       IN  IF emailTaken(users, call.email)
           THEN /\ lastAuth' = [op |-> "register", email |-> call.email,
                                result |-> "Email already registered"]
                /\ UNCHANGED <<users, session>>
           ELSE /\ lastAuth' = [op |-> "register", email |-> call.email,
                                result |-> "ok"]
                /\ users' \in setItem(users, Append(users, newUser))
                /\ session' \in setItem(session, <<newUser.email>>)
    /\ UNCHANGED <<appVars, reactVars, callVars, logVars, user, logoutCalls>>

\* login after its await, in one run.
LoginResume ==
    /\ authCalls # <<>>
    /\ Head(authCalls).op = "login"
    /\ authCalls' = Tail(authCalls)
    /\ LET call == Head(authCalls)
           found == findUser(users, call.email, call.password)
       IN  IF found = <<>>
           THEN /\ lastAuth' = [op |-> "login", email |-> call.email,
                                result |-> "Invalid email or password"]
                /\ UNCHANGED session
           ELSE /\ lastAuth' = [op |-> "login", email |-> call.email,
                                result |-> "ok"]
                /\ session' \in setItem(session, <<found[1].email>>)
    /\ UNCHANGED <<appVars, reactVars, callVars, logVars, user, logoutCalls,
                   users>>

\* ------------------------------------------------------- specifications
\* Every step but a change of language.  The language reaches nothing but
\* the language a call is made with.
Next ==
    \/ ToggleCamera
    \/ StreamReady
    \/ SetDetectionMode
    \/ toggleRecording
    \/ ClearHistory
    \/ WordScanTick
    \/ SentenceTick
    \/ WordReturn
    \/ SentenceReturn
    \/ Render

Spec == Init /\ [][Next]_vars

\* A recording that has captured n frames, 1 <= n <= MaxBufLen.
InitLong ==
    /\ appState = "RECORDING"
    /\ detectionMode = "SENTENCE"
    /\ signLanguage = "ASL"
    /\ isCameraActive = TRUE
    /\ currentPrediction = <<>>
    /\ history = <<>>
    /\ \E n \in 1..MaxBufLen :
            /\ framesBufferRef = [i \in 1..n |-> i]
            /\ frameCount = n
            /\ captured = [i \in 1..n |-> i]
    /\ processingRef = FALSE
    /\ rAppState = "RECORDING"
    /\ videoReady = TRUE
    /\ wordTimer = <<>>
    /\ sentTimer = TRUE
    /\ wordCalls = <<>>
    /\ sentCalls = <<>>
    /\ spoken = <<>>
    /\ lastOp = "SentenceTick"
    /\ lastOutcome = "appended"
    /\ lastResponse = <<>>
    /\ user = <<"user">>
    /\ logoutCalls = 0
    /\ users = <<StoredAccount>>
    /\ session = <<StoredAccount.email>>
    /\ authCalls = <<>>
    /\ lastAuth = [op |-> "none", email |-> "", result |-> ""]
    /\ error = <<>>
    /\ cameraRequest = FALSE

NextLong ==
    \/ toggleRecording
    \/ SentenceReturn
    \/ Render

\* Recordings of up to MaxBufLen frames, stopped and translated.
SpecLong == InitLong /\ [][NextLong]_vars

NextLang ==
    \/ Next
    \/ SetSignLanguage

\* Spec with the language buttons.
SpecLang == Init /\ [][NextLang]_vars

NextAuth ==
    \/ Next
    \/ handleLogout
    \/ LogoutReturn
    \/ Login

\* Spec with logout and login.
SpecAuth == Init /\ [][NextAuth]_vars

NextCam ==
    \/ Next
    \/ StreamDenied

\* Spec with a camera that may refuse.
SpecCam == Init /\ [][NextCam]_vars

NextLive ==
    \/ ToggleCamera
    \/ StreamReady
    \/ SetDetectionMode
    \/ toggleRecording
    \/ ClearHistory
    \/ WordScanTick
    \/ SentenceTick
    \/ WordReturn /\ Len(history') <= MaxLiveHistory
    \/ SentenceReturn /\ Len(history') <= MaxLiveHistory
    \/ Render

\* Spec with every inference call answered, sooner or later, and a history
\* of at most MaxLiveHistory entries.
SpecLive ==
    Init /\ [][NextLive]_vars /\ WF_vars(WordReturn) /\ WF_vars(SentenceReturn)

\* --------------------------------------------------------------- claims
\* A tick that delivered a frame.
FrameArrived == lastOp' \in {"WordScanTick", "SentenceTick"} /\ videoReady

\* The step is the stop branch of toggleRecording.
StopStep == lastOp' = "toggleRecording" /\ lastOutcome' = "stop"

\* The step resolves a word-mode call with response r.
WordAnswered(r) == lastOp' = "WordReturn" /\ lastResponse' = <<r>>

\* The step resolves a sentence-mode call with response r.
SentenceAnswered(r) == lastOp' = "SentenceReturn" /\ lastResponse' = <<r>>

\* Equal when case is ignored, on the translations of the model.
EqualIgnoringCase(a, b) == a = b \/ {a, b} = {"HELLO", "hello"}

\* Empty or made of whitespace only.
IsBlank(text) == text \in {"", " "}

\* C1: at most one word-mode inference call is outstanding in every
\* reachable state; a frame that arrives while the in-flight guard is set
\* starts no call; and a call starts only in the step of a tick that finds
\* the guard clear, so no frame is kept for later.
C1_AtMostOneWordCall ==
    [][ /\ Len(wordCalls) <= 1
        /\ Len(wordCalls') <= 1
        /\ (FrameArrived /\ processingRef => wordCalls' = wordCalls)
        /\ (wordCalls' # wordCalls /\ Len(wordCalls') >= Len(wordCalls)
              => FrameArrived /\ ~processingRef)
      ]_vars

\* C1 witness: a tick delivered a frame while a call was outstanding, and
\* the frame was dropped.
C1_Witness ==
    /\ lastOp = "WordScanTick"
    /\ lastOutcome = "dropped"
    /\ processingRef
    /\ Len(wordCalls) = 1

\* C2: the result of a word-mode call that arrives when the mode has been
\* switched to SENTENCE appends no HistoryEntry and triggers no audio.
C2_StaleWordResultDiscarded ==
    [][ lastOp' = "WordReturn" /\ detectionMode = "SENTENCE"
          => history' = history /\ spoken' = <<>>
      ]_vars

\* C3: a HistoryEntry is appended only from a result that is positive and
\* whose translation is neither empty nor whitespace.
C3_NoEntryFromRejectedResult ==
    [][ Len(history') > Len(history)
          => /\ lastResponse' # <<>>
             /\ lastResponse'[1].ok
             /\ lastResponse'[1].isSign
             /\ ~IsBlank(lastResponse'[1].translation)
      ]_vars

\* C4: a positive word-mode result with a translation appends nothing and
\* triggers no audio when the translation equals, case ignored, the text of
\* the last HistoryEntry, and otherwise appends exactly one WORD entry with
\* that text and triggers audio once, for it.
C4_WordDedup ==
    [][ \A r \in Responses :
          WordAnswered(r) /\ r.ok /\ r.isSign /\ r.translation # ""
            => IF /\ history # <<>>
                  /\ EqualIgnoringCase(Last(history).text, r.translation)
               THEN history' = history /\ spoken' = <<>>
               ELSE /\ history' = Append(history,
                          [text |-> r.translation, mode |-> "WORD"])
                    /\ spoken' = <<r.translation>>
      ]_vars

\* C4 witness: "hello" arrived after HELLO was appended and was suppressed.
C4_Witness ==
    /\ lastOp = "WordReturn"
    /\ lastResponse = <<[ok |-> TRUE, isSign |-> TRUE, translation |-> "hello"]>>
    /\ history = <<[text |-> "HELLO", mode |-> "WORD"]>>
    /\ spoken = <<>>

\* C5: no sentence-mode call is outstanding while RECORDING; a call is
\* made only by the stop of a recording, at most one by each stop, and a
\* recording ends only by its stop; the stop of a recording that captured
\* frames makes exactly one call, with exactly those frames in capture
\* order; and a result that is not positive leaves History unchanged.
C5_OneSentenceCallPerRecording ==
    [][ /\ (appState = "RECORDING" => sentCalls = <<>>)
        /\ (appState' = "RECORDING" => sentCalls' = <<>>)
        /\ (appState = "RECORDING" /\ appState' # "RECORDING" => StopStep)
        /\ (sentCalls' # sentCalls /\ Len(sentCalls') >= Len(sentCalls)
              => StopStep /\ appState = "RECORDING")
        /\ Len(sentCalls') <= Len(sentCalls) + 1
        /\ (StopStep /\ captured # <<>>
              => /\ Len(sentCalls') = Len(sentCalls) + 1
                 /\ Last(sentCalls').frames = captured)
        /\ \A r \in Responses :
             SentenceAnswered(r) /\ ~(r.ok /\ r.isSign) => history' = history
      ]_vars

\* C5 witness: a recording of MaxFrames frames was stopped and its one call
\* is outstanding.
C5_Witness ==
    /\ lastOp = "toggleRecording"
    /\ lastOutcome = "stop"
    /\ Len(sentCalls) = 1
    /\ Len(sentCalls[1].frames) = MaxFrames

\* The last step completed a RECORDING -> PROCESSING -> IDLE cycle: the
\* sentence call resolved, or the recording was stopped with no frame.
CycleCompleted ==
    \/ lastOp = "SentenceReturn"
    \/ lastOp = "toggleRecording" /\ lastOutcome = "stop" /\ sentCalls = <<>>

\* C6: when a RECORDING -> PROCESSING -> IDLE cycle completes, SessionState
\* is IDLE and the FrameBuffer is empty, whatever the inference answered and
\* whether or not it was invoked.
C6_BufferEmptyAfterCycle ==
    CycleCompleted => appState = "IDLE" /\ Len(framesBufferRef) = 0

\* C6 witness: a cycle completed on a failed inference.
C6_Witness ==
    /\ lastOp = "SentenceReturn"
    /\ lastResponse = <<[ok |-> FALSE, isSign |-> FALSE, translation |-> ""]>>
    /\ appState = "IDLE"

\* The least k with n <= 15 * k: the ceiling of n / 15.
CeilOverCap(n) ==
    CHOOSE k \in 0..n : n <= 15 * k /\ (k = 0 \/ n > 15 * (k - 1))

\* The frames of a buffer of n frames at the indices 0, k, 2k, ... below n.
EveryKth(frames, k) ==
    LET n == Len(frames)
        m == (n + k - 1) \div k
    IN  [j \in 1..m |-> frames[(j - 1) * k + 1]]

\* C7: the sequence sent for a buffer of n >= 1 frames is the whole buffer
\* when n <= 15 and otherwise the frames at the indices that are multiples
\* of ceil(n / 15); it has at most 15 frames, keeps the order of the buffer
\* and starts with the first frame.
C7_Downsampling ==
    \A j \in 1..Len(sentCalls) :
        LET frames == sentCalls[j].frames
            sent == sentCalls[j].payload
            n == Len(frames)
        IN  /\ n >= 1
            /\ (n <= 15 => sent = frames)
            /\ (n > 15 => sent = EveryKth(frames, CeilOverCap(n)))
            /\ Len(sent) <= 15
            /\ Len(sent) >= 1
            /\ sent[1] = frames[1]
            /\ \A a, b \in 1..Len(sent) : a < b => sent[a] < sent[b]
            /\ \A a \in 1..Len(sent) : \E i \in 1..n : sent[a] = frames[i]

\* C7 witness: a buffer of 37 frames was sent as fewer frames.
C7_Witness ==
    /\ Len(sentCalls) = 1
    /\ Len(sentCalls[1].frames) = 37
    /\ Len(sentCalls[1].payload) < 37

\* C8: stop-recording with an empty FrameBuffer makes no inference call and
\* leaves SessionState = IDLE, History and the current prediction as they
\* were.
C8_EmptyStop ==
    [][ StopStep /\ framesBufferRef = <<>>
          => /\ sentCalls' = sentCalls
             /\ wordCalls' = wordCalls
             /\ appState' = "IDLE"
             /\ history' = history
             /\ currentPrediction' = currentPrediction
      ]_vars

\* C8 witness: a recording was stopped with no frame, a prediction being
\* displayed and the history holding an entry.
C8_Witness ==
    /\ lastOp = "toggleRecording"
    /\ lastOutcome = "stop"
    /\ appState = "IDLE"
    /\ sentCalls = <<>>
    /\ currentPrediction # <<>>
    /\ history # <<>>

\* C9: when a word-mode inference call fails, SessionState becomes
\* SCANNING, the in-flight guard is cleared, History is unchanged and no
\* audio is triggered.
C9_WordFailure ==
    [][ \A r \in Responses :
          WordAnswered(r) /\ ~r.ok
            => /\ appState' = "SCANNING"
               /\ processingRef' = FALSE
               /\ history' = history
               /\ spoken' = <<>>
      ]_vars

\* C9 witness: a word-mode call failed while the history held an entry.
C9_Witness ==
    /\ lastOp = "WordReturn"
    /\ lastResponse = <<[ok |-> FALSE, isSign |-> FALSE, translation |-> ""]>>
    /\ history # <<>>
    /\ appState = "SCANNING"

\* C10: Mode never changes while SessionState = RECORDING, and a mode-toggle
\* request made during RECORDING leaves Mode, SessionState and the
\* FrameBuffer unchanged.
C10_ModeLockedWhileRecording ==
    [][ /\ (appState = "RECORDING" => detectionMode' = detectionMode)
        /\ (lastOp' = "SetDetectionMode" /\ appState = "RECORDING"
              => /\ detectionMode' = detectionMode
                 /\ appState' = appState
                 /\ framesBufferRef' = framesBufferRef)
      ]_vars

\* C10 witness: a mode-toggle request was made during a recording that had
\* captured a frame.
C10_Witness ==
    /\ lastOp = "SetDetectionMode"
    /\ appState = "RECORDING"
    /\ framesBufferRef # <<>>

\* C11: every word-mode call is dispatched with the language selector that
\* is current when its tick fires.
C11_CallUsesCurrentLanguage ==
    [][ lastOp' = "WordScanTick" /\ lastOutcome' = "dispatched"
          => Last(wordCalls').language = signLanguage
      ]_vars

\* C12: the result of a sentence-mode call that arrives when the mode has
\* been switched away from SENTENCE appends no HistoryEntry, triggers no
\* audio and leaves the current prediction as it was.
C12_StaleSentenceResultDiscarded ==
    [][ lastOp' = "SentenceReturn" /\ detectionMode # "SENTENCE"
          => /\ history' = history
             /\ spoken' = <<>>
             /\ currentPrediction' = currentPrediction
      ]_vars

\* C13: every step leaves History unchanged, appends one entry at its end,
\* or empties it by the bulk clear; no step changes or removes an entry.
C13_HistoryAppendOnly ==
    [][ \/ history' = history
        \/ /\ Len(history') = Len(history) + 1
           /\ SubSeq(history', 1, Len(history)) = history
        \/ history' = <<>> /\ lastOp' = "ClearHistory"
      ]_vars

\* C13 witness: an entry was appended to a history that held one.
C13_Witness ==
    /\ lastOp \in {"WordReturn", "SentenceReturn"}
    /\ spoken # <<>>
    /\ Len(history) = 2
    /\ history[1] # history[2]

\* The word-scan tick is active: CameraHandler's interval is armed.
WordTickActive == wordTimer # <<>>

\* The sentence-capture tick is active: App's 250 ms interval is armed.
SentenceTickActive == sentTimer

C15_SentenceTickExactlyWhileRecording ==
    SentenceTickActive <=> appState = "RECORDING" /\ detectionMode = "SENTENCE"

\* C15 witness: a recording that captured a frame was stopped, and the tick
\* is cancelled while its call is outstanding.
C15_Witness ==
    /\ lastOp = "toggleRecording"
    /\ lastOutcome = "stop"
    /\ appState = "PROCESSING"
    /\ ~SentenceTickActive

\* C16: in no reachable state are the word-scan tick and the
\* sentence-capture tick both active.
C16_TicksMutuallyExclusive ==
    ~(WordTickActive /\ SentenceTickActive)

\* C16 witness: a recording with the camera delivering frames, the
\* sentence-capture tick active and the word-scan tick not.
C16_Witness ==
    /\ SentenceTickActive
    /\ ~WordTickActive
    /\ isCameraActive
    /\ videoReady
    /\ framesBufferRef # <<>>

\* C17: when the camera is stopped or no user is logged in, no cadence tick
\* is active, whatever SessionState is.
C17_NoTickAfterCameraStopOrLogout ==
    ~isCameraActive \/ user = <<>>
        => ~WordTickActive /\ ~SentenceTickActive

\* C18: a frame delivered when SessionState = RECORDING and Mode = SENTENCE
\* is appended to the FrameBuffer, once; a frame delivered in any other
\* state leaves the buffer unchanged; and the buffer grows by nothing else.
C18_AppendOnlyWhileRecording ==
    [][ /\ (FrameArrived /\ appState = "RECORDING" /\ detectionMode = "SENTENCE"
              => framesBufferRef' = Append(framesBufferRef, nextFrame))
        /\ (FrameArrived /\ ~(appState = "RECORDING" /\ detectionMode = "SENTENCE")
              => framesBufferRef' = framesBufferRef)
        /\ (Len(framesBufferRef') > Len(framesBufferRef)
              => /\ FrameArrived
                 /\ appState = "RECORDING" /\ detectionMode = "SENTENCE")
      ]_vars

\* C18 witness: a frame was delivered in WORD mode after a recording cycle
\* had cleared the buffer, and the buffer stayed empty.
C18_Witness ==
    /\ lastOp = "WordScanTick"
    /\ lastOutcome = "dispatched"
    /\ framesBufferRef = <<>>
    /\ \E i \in 1..Len(history) : history[i].mode = "SENTENCE"

\* C19: a non-empty FrameBuffer implies that SessionState is RECORDING, or
\* is PROCESSING with the sentence call of a stopped recording outstanding;
\* the buffer is empty in IDLE, in SCANNING and in PROCESSING with a
\* word-mode call outstanding.
C19_BufferNonEmptyOnlyInCycle ==
    /\ framesBufferRef # <<>>
         => \/ appState = "RECORDING"
            \/ appState = "PROCESSING" /\ sentCalls # <<>>
    /\ appState \in {"IDLE", "SCANNING"} => framesBufferRef = <<>>
    /\ appState = "PROCESSING" /\ wordCalls # <<>> => framesBufferRef = <<>>

\* C19 witness: the buffer holds the frames of a stopped recording while
\* its call is outstanding.
C19_Witness ==
    /\ appState = "PROCESSING"
    /\ sentCalls # <<>>
    /\ Len(framesBufferRef) = MaxFrames

\* C20: in every reachable state the frame counter equals the length of the
\* FrameBuffer.
C20_CounterMirrorsBuffer ==
    frameCount = Len(framesBufferRef)

\* C20 witness: the second frame of a recording was appended and counted.
C20_Witness ==
    /\ lastOp = "SentenceTick"
    /\ lastOutcome = "appended"
    /\ frameCount = 2
    /\ Len(framesBufferRef) = 2

\* The step is the start branch of toggleRecording.
StartStep == lastOp' = "toggleRecording" /\ lastOutcome' = "start"

\* C21: start-recording is taken only when Mode = SENTENCE and SessionState
\* is IDLE or SCANNING; it sets SessionState = RECORDING, empties the
\* FrameBuffer and sets the frame counter to 0, and leaves History and the
\* current prediction unchanged.  RECORDING is entered by nothing else.
C21_StartRecording ==
    [][ /\ StartStep
          => /\ detectionMode = "SENTENCE"
             /\ appState \in {"IDLE", "SCANNING"}
             /\ appState' = "RECORDING"
             /\ framesBufferRef' = <<>>
             /\ frameCount' = 0
             /\ history' = history
             /\ currentPrediction' = currentPrediction
        /\ appState # "RECORDING" /\ appState' = "RECORDING" => StartStep
      ]_vars

\* C21 witness: a recording was started from SCANNING, the history and the
\* current prediction holding a word.
C21_Witness ==
    /\ lastOp = "toggleRecording"
    /\ lastOutcome = "start"
    /\ appState = "RECORDING"
    /\ history # <<>>
    /\ currentPrediction # <<>>

\* An inference call of either kind is outstanding.
CallOutstanding == wordCalls # <<>> \/ sentCalls # <<>>

\* C22: SessionState = PROCESSING holds in exactly the states where an
\* inference call, word-mode or sentence-mode, is outstanding.
C22_ProcessingIffCallOutstanding ==
    appState = "PROCESSING" <=> CallOutstanding

\* C22 witness: a word-mode call resolved and PROCESSING was left with it.
C22_Witness ==
    /\ lastOp = "WordReturn"
    /\ appState = "SCANNING"
    /\ ~CallOutstanding
    /\ rAppState = "PROCESSING"

\* The current prediction is the "could not understand" sentinel.
SentinelShown(prediction) ==
    /\ prediction # <<>>
    /\ ~prediction[1].isSign
    /\ prediction[1].translation = "Could not understand sentence"

\* C23: when the sentence inference answers isPositive = false or fails, no
\* HistoryEntry is appended, no audio is triggered, the current prediction
\* becomes the "could not understand" sentinel and SessionState becomes
\* IDLE.
C23_SentenceRejected ==
    [][ \A r \in Responses :
          SentenceAnswered(r) /\ ~(r.ok /\ r.isSign)
            => /\ history' = history
               /\ spoken' = <<>>
               /\ SentinelShown(currentPrediction')
               /\ appState' = "IDLE"
      ]_vars

\* C23 witness: the sentence inference failed while the history held an
\* entry, and the sentinel is displayed.
C23_Witness ==
    /\ lastOp = "SentenceReturn"
    /\ lastResponse = <<[ok |-> FALSE, isSign |-> FALSE, translation |-> ""]>>
    /\ SentinelShown(currentPrediction)
    /\ history # <<>>
    /\ appState = "IDLE"

\* C24: every sentence-mode result with isPositive = true appends one
\* HistoryEntry with mode SENTENCE and its translation, and triggers audio
\* for it, whatever the text of the last HistoryEntry.
C24_SentenceNotDeduplicated ==
    [][ \A r \in Responses :
          SentenceAnswered(r) /\ r.ok /\ r.isSign
            => /\ history' = Append(history,
                      [text |-> r.translation, mode |-> "SENTENCE"])
               /\ spoken' = <<r.translation>>
      ]_vars

\* C24 witness: a sentence translated "hello" was appended after the entry
\* HELLO and spoken.
C24_Witness ==
    /\ lastOp = "SentenceReturn"
    /\ Len(history) = 2
    /\ history[1].text = "HELLO"
    /\ history[2] = [text |-> "hello", mode |-> "SENTENCE"]
    /\ spoken = <<"hello">>

\* C25: on every positive word-mode result with a non-empty translation the
\* current prediction becomes that result, whether or not a HistoryEntry
\* was appended for it.
C25_PredictionSetOnEveryWord ==
    [][ \A r \in Responses :
          WordAnswered(r) /\ r.ok /\ r.isSign /\ r.translation # ""
            => /\ currentPrediction' # <<>>
               /\ currentPrediction'[1].isSign
               /\ currentPrediction'[1].translation = r.translation
      ]_vars

\* C25 witness: "hello" arrived after HELLO, its entry was suppressed and
\* it is the current prediction.
C25_Witness ==
    /\ lastOp = "WordReturn"
    /\ history = <<[text |-> "HELLO", mode |-> "WORD"]>>
    /\ spoken = <<>>
    /\ currentPrediction # <<>>
    /\ currentPrediction[1].translation = "hello"

\* C26: after a mode switch made while SessionState is SCANNING or IDLE the
\* FrameBuffer is empty and the in-flight guard is clear.
C26_SwitchLeavesBufferAndGuardClear ==
    [][ ( /\ lastOp' = "SetDetectionMode"
          /\ detectionMode' # detectionMode
          /\ appState \in {"IDLE", "SCANNING"} )
          => /\ framesBufferRef' = <<>>
             /\ processingRef' = FALSE
      ]_vars

\* C26 witness: the mode was switched to SENTENCE in SCANNING, after a word
\* had been detected.
C26_Witness ==
    /\ lastOp = "SetDetectionMode"
    /\ lastOutcome = "switched"
    /\ detectionMode = "SENTENCE"
    /\ appState = "SCANNING"
    /\ history # <<>>

\* C27: SessionState is IDLE immediately after every login, and after every
\* completed sentence cycle.
C27_IdleAfterLoginAndCycle ==
    /\ lastOp = "Login" => appState = "IDLE"
    /\ CycleCompleted => appState = "IDLE"

\* C28: a refused camera puts SessionState in ERRORED, and no inference
\* call is dispatched while SessionState = ERRORED.
C28_CaptureFailureSetsErrored ==
    [][ /\ (lastOp' = "StreamDenied" => appState' = "ERROR")
        /\ (appState = "ERROR"
              => /\ Len(wordCalls') <= Len(wordCalls)
                 /\ Len(sentCalls') <= Len(sentCalls))
      ]_vars

\* C29: in every reachable state at most one inference call of either kind
\* is outstanding, and whenever the in-flight guard is set SessionState is
\* PROCESSING.
C29_AtMostOneCallOfEitherKind ==
    /\ Len(wordCalls) + Len(sentCalls) <= 1
    /\ processingRef => appState = "PROCESSING"

\* C29 witness: a sentence call is outstanding in WORD mode with the camera
\* delivering frames, and no word call is.
C29_Witness ==
    /\ Len(sentCalls) = 1
    /\ wordCalls = <<>>
    /\ detectionMode = "WORD"
    /\ isCameraActive
    /\ videoReady
    /\ ~processingRef

\* C30: a step requests audio exactly when it appends a HistoryEntry, once,
\* and with the text of that entry.
C30_AudioExactlyOnAppend ==
    [][ /\ spoken' # <<>> <=> Len(history') = Len(history) + 1
        /\ spoken' # <<>> => spoken' = <<Last(history').text>>
      ]_vars

\* C30 witness: WORLD was appended to a history that held an entry, and
\* spoken.
C30_Witness ==
    /\ lastOp \in {"WordReturn", "SentenceReturn"}
    /\ Len(history) = 2
    /\ Last(history).text = "WORLD"
    /\ spoken = <<"WORLD">>

\* C31: every inference call being answered, a set in-flight guard is
\* eventually clear, PROCESSING is eventually left, a word-mode call leads
\* to SCANNING and a sentence-mode call to IDLE.
C31_ProcessingEventuallyLeft ==
    /\ (processingRef \/ appState = "PROCESSING")
         ~> (~processingRef /\ appState # "PROCESSING")
    /\ wordCalls # <<>>
         ~> (lastOp = "WordReturn" /\ appState = "SCANNING" /\ ~processingRef)
    /\ sentCalls # <<>> ~> (lastOp = "SentenceReturn" /\ appState = "IDLE")

\* C31 witness: the sentence call of a recording was answered and IDLE set,
\* the render still showing PROCESSING.
C31_Witness ==
    /\ lastOp = "SentenceReturn"
    /\ appState = "IDLE"
    /\ rAppState = "PROCESSING"
    /\ ~processingRef
    /\ sentCalls = <<>>

NextRegister ==
    \/ register
    \/ RegisterResume
    \/ login
    \/ LoginResume

\* The auth service called by any caller, the calls overlapping or not.
SpecRegister == Init /\ [][NextRegister]_vars

\* Two emails equal ignoring case.
SameEmail(a, b) == a = b \/ {a, b} = {"ann@x.io", "Ann@x.io"}

\* No two stored users have emails equal ignoring case.
NoDuplicateEmails ==
    \A i, j \in 1..Len(users) :
        i # j => ~SameEmail(users[i].email, users[j].email)

\* The step is the resumption of a register call whose email is already
\* registered.
RegisterOfTakenEmail ==
    /\ authCalls # <<>>
    /\ Head(authCalls).op = "register"
    /\ authCalls' = Tail(authCalls)
    /\ \E i \in 1..Len(users) : SameEmail(users[i].email, Head(authCalls).email)

\* C32: whatever register calls are made, overlapping or not, the stored
\* user list never holds two users whose emails are equal ignoring case, and
\* a register call with an email already registered fails with the error
\* 'Email already registered' and leaves the stored list and the stored
\* session as they were.
C32_RegisterKeepsEmailsUnique ==
    /\ NoDuplicateEmails
    /\ [][/\ NoDuplicateEmails'
          /\ RegisterOfTakenEmail =>
                /\ lastAuth' = [op |-> "register",
                                email |-> Head(authCalls).email,
                                result |-> "Email already registered"]
                /\ users' = users
                /\ session' = session]_vars

\* C32 witness: a register call with the email of a stored user in another
\* case was refused while a session was stored and another call was still
\* inside its delay.
C32_Witness ==
    /\ lastAuth.op = "register"
    /\ lastAuth.result = "Email already registered"
    /\ \E i \in 1..Len(users) :
            /\ users[i].email # lastAuth.email
            /\ SameEmail(users[i].email, lastAuth.email)
    /\ Len(users) = 2
    /\ session # <<>>
    /\ authCalls # <<>>

====
